---------------------------- MODULE Spec2Model ----------------------------
(***************************************************************************)
(* A model of the pipeline kernel of mas-data: the provenance tracker      *)
(* (subsets_utils/tracking.py), the task registry loader                   *)
(* (subsets_utils/nodes.py), the dependency graph it hands the registry to *)
(* (subsets_utils/dag.py, not part of the sources: modelled from the       *)
(* design document), and the sequential ingest run (main.py and the ingest *)
(* tasks).  Each subsystem has its own specification; the variables of the *)
(* other subsystems stay at their idle values.                             *)
(***************************************************************************)
EXTENDS Integers, Sequences, FiniteSets, TLC

VARIABLES
    \* ---- tracking.py
    current_task_id,   \* _current_task_id : str | None
    asset_writers,     \* _asset_writers   : dict, as a sequence of <<key, value>>
    io_records,        \* _io_records      : list of IORecord
    last,              \* the most recent call of the tracker's interface: the call,
                       \* its result, the slot and (for a recording call) the frames
                       \* active where it was made
    \* ---- nodes.py
    nodes_dir,         \* the nodes directory: whether it exists, and its *.py files
    loader_pc,         \* where load_nodes is: "idle", "scanning", "returned", "raised"
    node_files,        \* load_nodes' local list node_files: the names of the files
    next_file,         \* the index in node_files of the file the loop loads next
    all_nodes,         \* load_nodes' local dict all_nodes
    \* ---- dag.py (the DAG load_nodes returns)
    workflow,          \* the registry of the DAG, once dag_pc says there is one
    dag_pc,            \* "none", "new", "built", "error", "running", "in_task",
                       \* "returning", "raising", "done", "failed"
    dag_error,         \* the task a structural error names; None without one
    order,             \* the execution order computed for the run
    executed,          \* the tasks whose body has been started, in order
    \* ---- main.py and the ingest tasks
    main_pc,           \* "idle", the task main() is in, "done" or "raised"
    task_pc,           \* within the task: "enter" (run() not yet called), "loop"
    pending,           \* run()'s local list pending
    idx,               \* the index in pending of the item the loop is at
    completed,         \* run()'s local set completed
    state_store,       \* the state files: what load_state(name) returns
    raw_store,         \* the raw artifacts on disk
    started,           \* the tasks main() has called in this run, in order
    failed_task,       \* the task whose run() raised in this run; None if none did
    runs               \* how many times main() has been called

trackerVars == <<current_task_id, asset_writers, io_records, last>>

loaderVars == <<nodes_dir, loader_pc, node_files, next_file, all_nodes>>

dagVars == <<workflow, dag_pc, dag_error, order, executed>>

mainVars == <<main_pc, task_pc, pending, idx, completed, state_store, raw_store,
              started, failed_task, runs>>

vars == <<trackerVars, loaderVars, dagVars, mainVars>>

-----------------------------------------------------------------------------
(* Python values *)

\* Python's None.  Strings stand for str values, so None is a string no
\* identifier of the model uses.
None == "<None>"

\* bool(x) of a value of type str | None.
Truthy(x) == x /= None /\ x /= ""

Last(s) == s[Len(s)]

\* s[-n:] of a list
LastN(s, n) == IF Len(s) <= n THEN s ELSE SubSeq(s, Len(s) - n + 1, Len(s))

\* s[:-n] of a list, n > 0
DropLastN(s, n) == IF Len(s) <= n THEN << >> ELSE SubSeq(s, 1, Len(s) - n)

(* A Python dict keeps its keys in insertion order; assigning to a key    *)
(* that is present replaces the value and keeps the key's place.  A dict  *)
(* is a sequence of <<key, value>> pairs with pairwise distinct keys.     *)
DictKeys(d) == {d[i][1] : i \in 1..Len(d)}

DictHas(d, k) == \E i \in 1..Len(d) : d[i][1] = k

DictIndex(d, k) == CHOOSE i \in 1..Len(d) : d[i][1] = k

\* d[k], for a key that is present
DictAt(d, k) == d[DictIndex(d, k)][2]

\* d.get(k)
DictGet(d, k) == IF DictHas(d, k) THEN DictAt(d, k) ELSE None

\* d[k] = v
DictSet(d, k, v) ==
    IF DictHas(d, k)
    THEN [d EXCEPT ![DictIndex(d, k)] = <<k, v>>]
    ELSE Append(d, <<k, v>>)

-----------------------------------------------------------------------------
(* Bounds and input domains of the tracker *)

\* The log holds at most MaxLog records in the model.
MaxLog == 3

\* Task identities the orchestrator may declare current.
TaskIds == {"fetchA", "saveA"}

\* Artifact references handed to record_read / record_write.
Assets == {"raw/a.json", "raw/b.json"}

(* A frame of traceback.extract_stack(): the function's name, the file's   *)
(* path (its components) and the line.                                      *)
Frame(n, f, l) == [name |-> n, filename |-> f, lineno |-> l]

TrackingFile == <<"src", "subsets_utils", "tracking.py">>
IoFile == <<"src", "subsets_utils", "io.py">>
NodeFile == <<"src", "nodes", "msb_tables.py">>
MainFile == <<"src", "main.py">>

\* Path components that contain the text subsets_utils
NamesSubsetsUtils == {"subsets_utils", "my_subsets_utils"}

\* The frames active where an I/O helper calls record_read / record_write,
\* oldest first, the direct caller last.
CallSites ==
    { <<Frame("main", MainFile, 22), Frame("run", NodeFile, 76),
        Frame("save_raw_file", IoFile, 40)>> }

-----------------------------------------------------------------------------
(* tracking.py *)

\* 'subsets_utils' in frame.filename
InSubsetsUtils(frame) ==
    \E i \in 1..Len(frame.filename) : frame.filename[i] \in NamesSubsetsUtils

InternalNames == {"record_read", "record_write", "_get_caller_stack"}

RelevantFrame(frame) == ~(InSubsetsUtils(frame) /\ frame.name \in InternalNames)

\* f"{frame.name} ({frame.filename.split('/')[-1]}:{frame.lineno})": the
\* text is determined by, and determines, these three parts.
FormatFrame(frame) ==
    [name |-> frame.name, file |-> Last(frame.filename), lineno |-> frame.lineno]

\* The number of relevant frames kept (result[-5:]).
KeptFrames == 5

\* The default of skip_frames.
SkipFrames == 3

\* _get_caller_stack(skip_frames), given what traceback.extract_stack()
\* returns in it: every active frame, oldest first, its own last.
GetCallerStack(extracted, skip_frames) ==
    LET frames == DropLastN(extracted, skip_frames)
        kept == SelectSeq(frames, RelevantFrame)
        result == [i \in 1..Len(kept) |-> FormatFrame(kept[i])]
    IN  LastN(result, KeptFrames)

\* The stack traceback.extract_stack() sees when record_read / record_write,
\* called from `site`, calls _get_caller_stack().
Extracted(site, recorder) ==
    site \o << Frame(recorder, TrackingFile, 60),
               Frame("_get_caller_stack", TrackingFile, 38) >>

\* A variant that does not note the task.
IORecordNoTask(asset_path, task_id, operation, stack) ==
    [asset_path |-> asset_path, task_id |-> None,
     operation |-> operation, stack |-> stack]

IORecord(asset_path, task_id, operation, stack) ==
    [asset_path |-> asset_path, task_id |-> task_id,
     operation |-> operation, stack |-> stack]

Call(op, arg, ret) ==
    [op |-> op, arg |-> arg, ret |-> ret, task |-> current_task_id, site |-> << >>]

\* A call of record_read / record_write made from `site`.
CallFrom(op, arg, site) ==
    [op |-> op, arg |-> arg, ret |-> None, task |-> current_task_id, site |-> site]

\* set_current_task(task_id)
set_current_task(task_id) ==
    /\ current_task_id' = task_id
    /\ last' = Call("set_current_task", task_id, None)
    /\ UNCHANGED <<asset_writers, io_records, loaderVars, dagVars, mainVars>>

\* Variants of the index update with a slip in them.
WritersFirstWriterWins(writers, asset_path, task_id) ==
    IF Truthy(task_id) /\ ~DictHas(writers, asset_path)
    THEN DictSet(writers, asset_path, task_id)
    ELSE writers

WritersAlwaysSet(writers, asset_path, task_id) == DictSet(writers, asset_path, task_id)

WritersNeverSet(writers, asset_path, task_id) == writers

\* The index after record_write(asset_path) under the task task_id.
WritersAfterWrite(writers, asset_path, task_id) ==
    IF Truthy(task_id) THEN DictSet(writers, asset_path, task_id) ELSE writers

\* record_write(asset_path), called from `site`
record_write(asset_path, site) ==
    /\ Len(io_records) < MaxLog
    /\ LET task_id == current_task_id
       IN  /\ asset_writers' = WritersAfterWrite(asset_writers, asset_path, task_id)
           /\ io_records' = Append(io_records,
                  IORecord(asset_path, task_id, "write",
                           GetCallerStack(Extracted(site, "record_write"), SkipFrames)))
    /\ last' = CallFrom("record_write", asset_path, site)
    /\ UNCHANGED <<current_task_id, loaderVars, dagVars, mainVars>>

\* record_read(asset_path), called from `site`
record_read(asset_path, site) ==
    /\ Len(io_records) < MaxLog
    /\ LET task_id == current_task_id
       IN  io_records' = Append(io_records,
                  IORecord(asset_path, task_id, "read",
                           GetCallerStack(Extracted(site, "record_read"), SkipFrames)))
    /\ last' = CallFrom("record_read", asset_path, site)
    /\ UNCHANGED <<current_task_id, asset_writers, loaderVars, dagVars, mainVars>>

\* get_writer(asset_path)
GetWriter(writers, asset_path) == DictGet(writers, asset_path)

\* get_assets_by_writer(task_id)
GetAssetsByWriter(writers, task_id) ==
    LET byTask(kv) == kv[2] = task_id
        mine == SelectSeq(writers, byTask)
    IN  [i \in 1..Len(mine) |-> mine[i][1]]

\* get_reads_by_task(task_id)
GetReadsByTask(records, task_id) ==
    LET mine(r) == r.task_id = task_id /\ r.operation = "read"
        chosen == SelectSeq(records, mine)
    IN  [i \in 1..Len(chosen) |-> chosen[i].asset_path]

\* get_writes_by_task(task_id)
GetWritesByTask(records, task_id) ==
    LET mine(r) == r.task_id = task_id /\ r.operation = "write"
        chosen == SelectSeq(records, mine)
    IN  [i \in 1..Len(chosen) |-> chosen[i].asset_path]

\* One row of get_io_records
RecordDict(r) ==
    [asset |-> r.asset_path, task |-> r.task_id, op |-> r.operation, stack |-> r.stack]

\* A variant that forgets the filter.
GetIoRecordsUnfiltered(records, task_id) ==
    [i \in 1..Len(records) |-> RecordDict(records[i])]

\* get_io_records(task_id)
GetIoRecords(records, task_id) ==
    LET mine(r) == r.task_id = task_id
        chosen == IF task_id = None THEN records ELSE SelectSeq(records, mine)
    IN  [i \in 1..Len(chosen) |-> RecordDict(chosen[i])]

\* A variant whose get_writer enters the artifact it does not find
\* (setdefault in place of get).
QueryInserting(op, arg, ret) ==
    /\ last' = Call(op, arg, ret)
    /\ asset_writers' = IF op = "get_writer" /\ ~DictHas(asset_writers, arg)
                        THEN Append(asset_writers, <<arg, None>>)
                        ELSE asset_writers
    /\ UNCHANGED <<current_task_id, io_records, loaderVars, dagVars, mainVars>>

\* A query: it returns `ret` and assigns to nothing.
Query(op, arg, ret) ==
    /\ last' = Call(op, arg, ret)
    /\ UNCHANGED <<current_task_id, asset_writers, io_records,
                   loaderVars, dagVars, mainVars>>

get_current_task == Query("get_current_task", None, current_task_id)

get_writer(asset_path) ==
    Query("get_writer", asset_path, GetWriter(asset_writers, asset_path))

get_assets_by_writer(task_id) ==
    Query("get_assets_by_writer", task_id, GetAssetsByWriter(asset_writers, task_id))

get_reads_by_task(task_id) ==
    Query("get_reads_by_task", task_id, GetReadsByTask(io_records, task_id))

get_writes_by_task(task_id) ==
    Query("get_writes_by_task", task_id, GetWritesByTask(io_records, task_id))

get_io_records(task_id) ==
    Query("get_io_records", task_id, GetIoRecords(io_records, task_id))

\* A variant that leaves the index as it is.
WritersKept == asset_writers

\* clear_tracking(): _asset_writers.clear()
ClearedWriters == << >>

\* A variant that resets the slot as well.
clear_tracking_and_slot ==
    /\ asset_writers' = << >>
    /\ io_records' = << >>
    /\ current_task_id' = None
    /\ last' = Call("clear_tracking", None, None)
    /\ UNCHANGED <<loaderVars, dagVars, mainVars>>

\* clear_tracking()
clear_tracking ==
    /\ asset_writers' = ClearedWriters
    /\ io_records' = << >>
    /\ last' = Call("clear_tracking", None, None)
    /\ UNCHANGED <<current_task_id, loaderVars, dagVars, mainVars>>

TrackerInit ==
    /\ current_task_id = None
    /\ asset_writers = << >>
    /\ io_records = << >>
    /\ last = [op |-> "import", arg |-> None, ret |-> None, task |-> None,
               site |-> << >>]

TrackerNext ==
    \/ \E t \in TaskIds \cup {None} : set_current_task(t)
    \/ \E a \in Assets, s \in CallSites : record_write(a, s)
    \/ \E a \in Assets, s \in CallSites : record_read(a, s)
    \/ get_current_task
    \/ \E a \in Assets : get_writer(a)
    \/ \E t \in TaskIds : get_assets_by_writer(t)
    \/ \E t \in TaskIds : get_reads_by_task(t)
    \/ \E t \in TaskIds : get_writes_by_task(t)
    \/ \E t \in TaskIds \cup {None} : get_io_records(t)
    \/ clear_tracking


-----------------------------------------------------------------------------
(* dag.py: the DAG class.  The file is not part of the sources; this is    *)
(* the Dependency Graph & Executor of the design document: construction    *)
(* verifies that the registry is a DAG (no cycle, no dependency that is    *)
(* not a key), run() computes a stable topological order once and runs the *)
(* tasks one at a time, declaring each current while its body runs.        *)

SeqToSet(q) == {q[i] : i \in 1..Len(q)}

\* The tasks some dependency list of the registry names without a row.
DanglingTasks(reg) ==
    {t \in DictKeys(reg) : \E d \in SeqToSet(DictAt(reg, t)) : d \notin DictKeys(reg)}

\* The registered tasks reachable from the tasks of S along dependencies
\* in 1..n steps.
RECURSIVE DepsWithin(_, _, _)
DepsWithin(reg, S, n) ==
    IF n = 0 THEN {}
    ELSE LET direct == {d \in DictKeys(reg) :
                           \E t \in S : d \in SeqToSet(DictAt(reg, t))}
         IN  direct \cup DepsWithin(reg, direct, n - 1)

TransitiveDeps(reg, t) == DepsWithin(reg, {t}, Len(reg))

\* The tasks that (transitively) depend on themselves.
CycleTasks(reg) == {t \in DictKeys(reg) : t \in TransitiveDeps(reg, t)}

\* The first key of the registry that lies in S.
FirstKeyIn(reg, S) == reg[CHOOSE i \in 1..Len(reg) :
                             /\ reg[i][1] \in S
                             /\ \A j \in 1..(i - 1) : reg[j][1] \notin S][1]

\* A variant of the validation that looks for dangling dependencies only.
StructuralErrorDanglingOnly(reg) ==
    IF DanglingTasks(reg) /= {} THEN FirstKeyIn(reg, DanglingTasks(reg)) ELSE None

\* The task the structural error of DAG(reg) names; None for a valid DAG.
StructuralError(reg) ==
    IF CycleTasks(reg) /= {} THEN FirstKeyIn(reg, CycleTasks(reg))
    ELSE IF DanglingTasks(reg) /= {} THEN FirstKeyIn(reg, DanglingTasks(reg))
    ELSE None

\* A variant that takes the tasks as they were declared.
DeclarationOrder(reg, placed) == [i \in 1..Len(reg) |-> reg[i][1]]

\* The order of a valid DAG: again and again the first task, in first-seen
\* order, that is not placed and whose dependencies all are.
RECURSIVE TopologicalOrder(_, _)
TopologicalOrder(reg, placed) ==
    LET ready == {t \in DictKeys(reg) \ SeqToSet(placed) :
                     SeqToSet(DictAt(reg, t)) \subseteq SeqToSet(placed)}
    IN  IF ready = {} THEN placed
        ELSE TopologicalOrder(reg, Append(placed, FirstKeyIn(reg, ready)))

\* DAG(reg), from a caller that holds the registry
DagConstruct ==
    /\ dag_pc = "new"
    /\ dag_error' = StructuralError(workflow)
    /\ dag_pc' = IF StructuralError(workflow) = None THEN "built" ELSE "error"
    /\ UNCHANGED <<workflow, order, executed, trackerVars, loaderVars, mainVars>>

\* DAG.run(), up to the first task
DagRunStart ==
    /\ dag_pc = "built"
    /\ order' = TopologicalOrder(workflow, << >>)
    /\ dag_pc' = "running"
    /\ UNCHANGED <<workflow, dag_error, executed, trackerVars, loaderVars, mainVars>>

\* The artifact a task's body writes.
ArtifactOf(t) ==
    CASE t = "fetchA" -> "raw/a.json"
      [] t = "saveA" -> "subsets/a"
      [] t = "fetchB" -> "raw/b.json"
      [] t = "saveB" -> "subsets/b"
      [] t = "fetchC" -> "raw/c.json"
      [] t = "saveC" -> "subsets/c"

\* The call site of the I/O helper a task's body calls.
TaskSite(t) ==
    <<Frame("run", <<"src", "subsets_utils", "dag.py">>, 1),
      Frame(t, NodeFile, 52),
      Frame("save_raw_file", IoFile, 40)>>

\* DAG.run(), one task, up to its body: the task is declared current.
DagRunTaskEnter ==
    /\ dag_pc = "running"
    /\ Len(executed) < Len(order)
    /\ LET t == order[Len(executed) + 1]
       IN  /\ executed' = Append(executed, t)
           /\ current_task_id' = t
           /\ last' = Call("set_current_task", t, None)
    /\ dag_pc' = "in_task"
    /\ UNCHANGED <<asset_writers, io_records, workflow, dag_error, order,
                   loaderVars, mainVars>>

\* The body of the task: through the I/O helpers it reads what its
\* dependencies wrote and, unless it raises first, writes its own artifact;
\* record_read / record_write take the task from the slot.
DagRunTaskBody ==
    /\ dag_pc = "in_task"
    /\ LET t == Last(executed)
           deps == DictAt(workflow, t)
           task_id == current_task_id
           reads == [i \in 1..Len(deps) |->
                        IORecord(ArtifactOf(deps[i]), task_id, "read",
                            GetCallerStack(Extracted(TaskSite(t), "record_read"),
                                           SkipFrames))]
           write == IORecord(ArtifactOf(t), task_id, "write",
                        GetCallerStack(Extracted(TaskSite(t), "record_write"),
                                       SkipFrames))
       IN  \/ /\ io_records' = (io_records \o reads) \o <<write>>
              /\ asset_writers' = WritersAfterWrite(asset_writers, ArtifactOf(t), task_id)
              /\ last' = CallFrom("record_write", ArtifactOf(t), TaskSite(t))
              /\ dag_pc' = "returning"
           \/ /\ io_records' = io_records \o reads
              /\ asset_writers' = asset_writers
              /\ last' = IF deps = << >> THEN last
                         ELSE CallFrom("record_read", ArtifactOf(Last(deps)), TaskSite(t))
              /\ dag_pc' = "raising"
    /\ UNCHANGED <<current_task_id, workflow, dag_error, order, executed,
                   loaderVars, mainVars>>

\* A variant of the executor that clears the context only after a normal
\* return.
SlotAfterTaskNoFinally(outcome) ==
    IF outcome = "raising" THEN current_task_id ELSE None

\* The slot once the task has returned ("returning") or raised ("raising"):
\* the context is cleared either way.
SlotAfterTask(outcome) == None

\* DAG.run(), one task, after its body: the context is cleared; a task that
\* raised ends the run.
DagRunTaskExit ==
    /\ dag_pc \in {"returning", "raising"}
    /\ current_task_id' = SlotAfterTask(dag_pc)
    /\ last' = Call("set_current_task", None, None)
    /\ dag_pc' = IF dag_pc = "returning" THEN "running" ELSE "failed"
    /\ UNCHANGED <<asset_writers, io_records, workflow, dag_error, order, executed,
                   loaderVars, mainVars>>

\* DAG.run() returns
DagRunEnd ==
    /\ dag_pc = "running"
    /\ Len(executed) = Len(order)
    /\ dag_pc' = "done"
    /\ UNCHANGED <<workflow, dag_error, order, executed, trackerVars, loaderVars, mainVars>>

DagIdle ==
    /\ workflow = << >>
    /\ dag_pc = "none"
    /\ dag_error = None
    /\ order = << >>
    /\ executed = << >>

-----------------------------------------------------------------------------
(* nodes.py *)

\* The task functions the node modules define.
Tasks == {"fetchA", "saveA", "fetchB"}

\* The value [] of a NODES entry, as in NODES = {run: []}.
EmptyList == "[]"

\* hash(x) succeeds: functions are hashable, lists are not.
Hashable(x) == x /= EmptyList

\* The items of a NODES dict: producer (a dict key, so hashable) and the
\* value declared for it.
NodesItems == Tasks \X (Tasks \cup {EmptyList})

\* The NODES dicts of the model: the empty one, those of one item, and those
\* of two items (with distinct keys) neither of which names a task twice.
NodesDicts ==
    {<< >>} \cup {<<p>> : p \in NodesItems}
            \cup {d \in NodesItems \X NodesItems :
                     /\ d[1][1] /= d[2][1]
                     /\ d[1][1] /= d[1][2]
                     /\ d[2][1] /= d[2][2]}

(* What executing a module does: "raises" (its top-level code raises),     *)
(* "no_nodes" (it defines no NODES), "not_dict" (NODES is not a dict),     *)
(* "dict" (NODES is the dict `nodes`).                                      *)
Module(kind, nodes) == [kind |-> kind, nodes |-> nodes]

Modules ==
    {Module(k, << >>) : k \in {"raises", "no_nodes", "not_dict"}}
    \cup {Module("dict", d) : d \in NodesDicts}

(* A *.py file of the directory: whether its name starts with "_", and     *)
(* the module it holds.  A private file is never loaded, so one module     *)
(* stands for all of them: the one that would raise.                       *)
File(private, module) == [private |-> private, module |-> module]

Files ==
    {File(FALSE, m) : m \in Modules} \cup {File(TRUE, Module("raises", << >>))}

\* The directory holds at most MaxFiles *.py files in the model.
MaxFiles == 2

(* A directory: `exists`, and `files`, a function from the file names to   *)
(* the files.  The names are numbers: name i is the i-th in the order in   *)
(* which the paths compare.                                                *)
Directories ==
    {[exists |-> FALSE, files |-> << >>]}
    \cup {[exists |-> TRUE, files |-> f] :
             f \in UNION {[1..n -> Files] : n \in 0..MaxFiles}}

\* The task functions of directories of independent units: every unit
\* declares one producer with its transform, and no unit names a task of
\* another.
PairTasks == {"fetchA", "saveA", "fetchB", "saveB", "fetchC", "saveC"}

PairUnits ==
    {File(FALSE, Module("dict", <<item>>)) :
        item \in {it \in PairTasks \X PairTasks : it[1] /= it[2]}}

IndependentDirectories ==
    {[exists |-> TRUE, files |-> f] :
        f \in UNION {{g \in [1..n -> PairUnits] :
                        \A i, j \in 1..n :
                            i /= j => SeqToSet(g[i].module.nodes[1])
                                      \cap SeqToSet(g[j].module.nodes[1]) = {}} :
                     n \in 1..MaxFiles}}

\* sorted(nodes_dir.glob("*.py"))
\* The lists nodes_dir.glob("*.py") may yield: the names of the files, in
\* whatever order the file system lists them.
GlobOrders(dir) ==
    {g \in [1..Len(dir.files) -> 1..Len(dir.files)] :
        \A i, j \in 1..Len(dir.files) : g[i] = g[j] => i = j}

\* A variant that takes the files as glob yields them.
Unsorted(names) == names

\* sorted(names): the names in ascending order.
RECURSIVE Sorted(_)
Sorted(names) ==
    IF names = << >> THEN << >>
    ELSE LET m == CHOOSE i \in 1..Len(names) : \A j \in 1..Len(names) : names[i] <= names[j]
             rest == [k \in 1..(Len(names) - 1) |->
                         IF k < m THEN names[k] ELSE names[k + 1]]
         IN  <<names[m]>> \o Sorted(rest)

\* A variant that registers the producer only.
ConvertItemProducerOnly(nodes, download_fn, transform_fn) ==
    DictSet(nodes, download_fn, << >>)

\* The two assignments of the loop body, for a hashable transform_fn.
ConvertItem(nodes, download_fn, transform_fn) ==
    DictSet(DictSet(nodes, download_fn, << >>), transform_fn, <<download_fn>>)

\* What a block of the loader ends in: all_nodes as it then is, and the
\* exception that left the block ("" when none did).
Outcome(error, nodes) == [error |-> error, nodes |-> nodes]

\* for download_fn, transform_fn in nodes_dict.items(): ..., from item i on.
\* An unhashable transform_fn makes the second assignment raise TypeError,
\* after the first was done.
RECURSIVE ConvertItems(_, _, _)
ConvertItems(nodes, nodes_dict, i) ==
    IF i > Len(nodes_dict) THEN Outcome("", nodes)
    ELSE IF ~Hashable(nodes_dict[i][2])
    THEN Outcome("TypeError", DictSet(nodes, nodes_dict[i][1], << >>))
    ELSE ConvertItems(ConvertItem(nodes, nodes_dict[i][1], nodes_dict[i][2]),
                      nodes_dict, i + 1)

\* A variant of the handler that swallows the exception.
UnitOutcomeSwallowing(nodes, module) ==
    IF module.kind = "dict"
    THEN Outcome("", ConvertItems(nodes, module.nodes, 1).nodes)
    ELSE Outcome("", nodes)

\* A variant that reads module.NODES without asking whether it is there.
UnitOutcomeStrict(nodes, module) ==
    CASE module.kind = "dict" -> ConvertItems(nodes, module.nodes, 1)
      [] module.kind = "not_dict" -> Outcome("", nodes)
      [] OTHER -> Outcome("AttributeError", nodes)

\* The body of the try statement for one module; the except clause prints
\* and re-raises.
UnitOutcome(nodes, module) ==
    CASE module.kind = "raises" -> Outcome("Exception", nodes)
      [] module.kind = "dict" -> ConvertItems(nodes, module.nodes, 1)
      [] OTHER -> Outcome("", nodes)

Raised(outcome) == outcome.error /= ""

\* A variant that fails on a directory that does not exist.
LoadNodesEnterRaising ==
    /\ loader_pc = "idle"
    /\ all_nodes' = << >>
    /\ next_file' = 1
    /\ loader_pc' = IF ~nodes_dir.exists THEN "raised" ELSE "scanning"
    /\ \E globbed \in GlobOrders(nodes_dir) : node_files' = Sorted(globbed)
    /\ UNCHANGED <<nodes_dir, dagVars, trackerVars, mainVars>>

\* load_nodes(nodes_dir), up to the loop; validate_environment() is taken
\* to pass.  For a directory that does not exist it returns DAG({}).
LoadNodesEnter ==
    /\ loader_pc = "idle"
    /\ all_nodes' = << >>
    /\ next_file' = 1
    /\ IF ~nodes_dir.exists
       THEN /\ loader_pc' = "returned"
            /\ node_files' = << >>
            /\ workflow' = << >>
            /\ dag_pc' = "built"
       ELSE /\ loader_pc' = "scanning"
            /\ \E globbed \in GlobOrders(nodes_dir) : node_files' = Sorted(globbed)
            /\ UNCHANGED <<workflow, dag_pc>>
    /\ UNCHANGED <<nodes_dir, dag_error, order, executed, trackerVars, mainVars>>

\* One iteration of the loop over node_files
LoadUnit ==
    /\ loader_pc = "scanning"
    /\ next_file <= Len(node_files)
    /\ LET node_file == nodes_dir.files[node_files[next_file]]
           outcome == UnitOutcome(all_nodes, node_file.module)
       IN  IF node_file.private
           THEN /\ next_file' = next_file + 1
                /\ UNCHANGED <<all_nodes, loader_pc>>
           ELSE /\ all_nodes' = outcome.nodes
                /\ IF Raised(outcome)
                   THEN loader_pc' = "raised" /\ UNCHANGED next_file
                   ELSE next_file' = next_file + 1 /\ UNCHANGED loader_pc
    /\ UNCHANGED <<nodes_dir, node_files, dagVars, trackerVars, mainVars>>

\* return DAG(all_nodes), after the loop
LoadNodesReturn ==
    /\ loader_pc = "scanning"
    /\ next_file > Len(node_files)
    /\ workflow' = all_nodes
    /\ dag_error' = StructuralError(all_nodes)
    /\ IF StructuralError(all_nodes) = None
       THEN loader_pc' = "returned" /\ dag_pc' = "built"
       ELSE loader_pc' = "raised" /\ dag_pc' = "error"
    /\ UNCHANGED <<nodes_dir, node_files, next_file, all_nodes, order, executed,
                   trackerVars, mainVars>>

LoaderIdle ==
    /\ nodes_dir = [exists |-> FALSE, files |-> << >>]
    /\ loader_pc = "idle"
    /\ node_files = << >>
    /\ next_file = 1
    /\ all_nodes = << >>

LoaderInit ==
    /\ nodes_dir \in Directories \cup IndependentDirectories
    /\ loader_pc = "idle"
    /\ node_files = << >>
    /\ next_file = 1
    /\ all_nodes = << >>

-----------------------------------------------------------------------------
(* main.py and the ingest tasks it runs *)

\* The model's DATASETS has NDatasets entries and its TABLES NTables; the
\* keys are numbered in the order the dicts list them.
NDatasets == 2
NTables == 2

\* main() is called at most MaxRuns times.
MaxRuns == 2

\* The tasks in the order main() calls them.
RunOrder == <<"datagovsg", "msb_tables", "exchange_rates", "interest_rates">>

ItemTasks == {"datagovsg", "msb_tables"}
PageTasks == {"exchange_rates", "interest_rates"}

\* DATASETS.items() / TABLES.items(), as their keys
ItemsOf(task) == IF task = "datagovsg" THEN 1..NDatasets ELSE 1..NTables

\* The ascending sequence of the numbers of S: a comprehension over
\* dict.items() keeps the dict's order.
RECURSIVE Ascending(_)
Ascending(S) ==
    IF S = {} THEN << >>
    ELSE LET m == CHOOSE x \in S : \A y \in S : x <= y
         IN  <<m>> \o Ascending(S \ {m})

\* A variant that does not consult the marker.
PendingAll(task, done) == Ascending(ItemsOf(task))

\* pending = [... for ... in X.items() if key not in completed]
PendingOf(task, done) == Ascending(ItemsOf(task) \ done)

TaskAfter(task) ==
    CASE task = "datagovsg" -> "msb_tables"
      [] task = "msb_tables" -> "exchange_rates"
      [] task = "exchange_rates" -> "interest_rates"
      [] task = "interest_rates" -> "done"

\* A variant of main() that catches what a task raises and goes on.
GoOnAfterFailure(task) == TaskAfter(task)

\* Where main() is once `task` has raised: it has no handler, the exception
\* leaves main().
AfterFailure(task) == "raised"

(* What an iteration of a task ends in.  "ok": the artifact is saved and   *)
(* the marker persisted.  "fetch": get / raise_for_status / fetch_batch    *)
(* raised before anything was written.  "partial" (datagovsg's streaming   *)
(* branch): a later fetch_batch or the metadata write raised with the      *)
(* .ndjson.gz already written to.  "save": save_raw_file / save_raw_json   *)
(* raised.  "state": save_state raised, the artifact saved.                *)
ItemOutcomes(task) ==
    IF task = "datagovsg"
    THEN {"ok", "fetch", "partial", "save", "state"}
    ELSE {"ok", "fetch", "save", "state"}

\* The artifact of an item after an iteration with this outcome, `was`
\* being what the disk held for it.
ArtifactAfter(was, outcome) ==
    CASE outcome \in {"ok", "state"} -> "saved"
      [] outcome = "partial" -> "partial"
      [] OTHER -> was

\* A variant that marks the item before its artifact is saved.
MarkerBeforeSave(persisted, done, item, outcome) ==
    IF outcome \in {"ok", "save"} THEN done \cup {item} ELSE persisted

\* The persisted completed set after an iteration: completed.add(item) and
\* save_state(...) come last, after the artifact was saved.
MarkerAfter(persisted, done, item, outcome) ==
    IF outcome = "ok" THEN done \cup {item} ELSE persisted

\* main(), up to its first task
MainEnter ==
    /\ main_pc \in {"idle", "done", "raised"}
    /\ runs < MaxRuns
    /\ runs' = runs + 1
    /\ main_pc' = RunOrder[1]
    /\ task_pc' = "enter"
    /\ started' = << >>
    /\ failed_task' = None
    /\ pending' = << >>
    /\ idx' = 1
    /\ completed' = {}
    /\ UNCHANGED <<state_store, raw_store, trackerVars, loaderVars, dagVars>>

\* datagovsg.run() / msb_tables.run(), up to the loop
ItemTaskEnter ==
    /\ main_pc \in ItemTasks
    /\ task_pc = "enter"
    /\ started' = Append(started, main_pc)
    /\ completed' = state_store[main_pc]
    /\ pending' = PendingOf(main_pc, state_store[main_pc])
    /\ idx' = 1
    /\ IF PendingOf(main_pc, state_store[main_pc]) = << >>
       THEN main_pc' = TaskAfter(main_pc) /\ task_pc' = "enter"
       ELSE main_pc' = main_pc /\ task_pc' = "loop"
    /\ UNCHANGED <<state_store, raw_store, failed_task, runs,
                   trackerVars, loaderVars, dagVars>>

\* One iteration of the loop over pending
ItemTaskStep ==
    /\ main_pc \in ItemTasks
    /\ task_pc = "loop"
    /\ idx <= Len(pending)
    /\ \E outcome \in ItemOutcomes(main_pc) :
          LET item == pending[idx]
          IN  /\ raw_store' = [raw_store EXCEPT ![main_pc][item] =
                                   ArtifactAfter(@, outcome)]
              /\ completed' = IF outcome \in {"ok", "state"}
                              THEN completed \cup {item} ELSE completed
              /\ state_store' = [state_store EXCEPT ![main_pc] =
                                     MarkerAfter(@, completed, item, outcome)]
              /\ IF outcome = "ok"
                 THEN /\ idx' = idx + 1
                      /\ UNCHANGED <<main_pc, task_pc, failed_task>>
                 ELSE /\ failed_task' = main_pc
                      /\ main_pc' = AfterFailure(main_pc)
                      /\ task_pc' = IF AfterFailure(main_pc) = "raised"
                                    THEN task_pc ELSE "enter"
                      /\ UNCHANGED idx
    /\ UNCHANGED <<pending, started, runs, trackerVars, loaderVars, dagVars>>

\* The loop is over: run() returns
ItemTaskReturn ==
    /\ main_pc \in ItemTasks
    /\ task_pc = "loop"
    /\ idx > Len(pending)
    /\ main_pc' = TaskAfter(main_pc)
    /\ task_pc' = "enter"
    /\ UNCHANGED <<pending, idx, completed, state_store, raw_store, started,
                   failed_task, runs, trackerVars, loaderVars, dagVars>>

\* exchange_rates.run() / interest_rates.run()
PageTaskRun ==
    /\ main_pc \in PageTasks
    /\ task_pc = "enter"
    /\ started' = Append(started, main_pc)
    /\ IF state_store[main_pc]
       THEN /\ main_pc' = TaskAfter(main_pc)
            /\ UNCHANGED <<state_store, raw_store, failed_task>>
       ELSE \E outcome \in {"ok", "fetch", "save", "state"} :
               /\ raw_store' = [raw_store EXCEPT ![main_pc] = ArtifactAfter(@, outcome)]
               /\ state_store' = IF outcome = "ok"
                                 THEN [state_store EXCEPT ![main_pc] = TRUE]
                                 ELSE state_store
               /\ IF outcome = "ok"
                  THEN main_pc' = TaskAfter(main_pc) /\ UNCHANGED failed_task
                  ELSE main_pc' = AfterFailure(main_pc) /\ failed_task' = main_pc
    /\ UNCHANGED <<task_pc, pending, idx, completed, runs,
                   trackerVars, loaderVars, dagVars>>

MainIdle ==
    /\ main_pc = "idle"
    /\ task_pc = "enter"
    /\ pending = << >>
    /\ idx = 1
    /\ completed = {}
    /\ state_store = [datagovsg |-> {}, msb_tables |-> {},
                      exchange_rates |-> FALSE, interest_rates |-> FALSE]
    /\ raw_store = [datagovsg |-> [i \in 1..NDatasets |-> "absent"],
                    msb_tables |-> [i \in 1..NTables |-> "absent"],
                    exchange_rates |-> "absent", interest_rates |-> "absent"]
    /\ started = << >>
    /\ failed_task = None
    /\ runs = 0

-----------------------------------------------------------------------------
(* The specifications *)

\* The tracker's interface, called in any order.
TrackerSpecInit == TrackerInit /\ LoaderIdle /\ DagIdle /\ MainIdle

SpecTracker == TrackerSpecInit /\ [][TrackerNext]_vars

\* The call stacks the recording functions are reached through: up to
\* MaxDepth frames of main(), the tasks and the I/O helpers, the last one the
\* direct caller.
MaxDepth == 7

StackFrames ==
    {Frame("main", MainFile, 22), Frame("run", NodeFile, 76),
     Frame("save_raw_file", IoFile, 40)}

StackSites == UNION {[1..n -> StackFrames] : n \in 1..MaxDepth}

\* record_write / record_read on an empty log, from any of these stacks
StackRecordWrite ==
    /\ io_records = << >>
    /\ \E a \in Assets, site \in StackSites : record_write(a, site)

StackRecordRead ==
    /\ io_records = << >>
    /\ \E a \in Assets, site \in StackSites : record_read(a, site)

SnapshotNext ==
    \/ StackRecordWrite
    \/ StackRecordRead
    \/ clear_tracking

SpecSnapshot == TrackerSpecInit /\ [][SnapshotNext]_vars

\* workflow = load_nodes(); workflow.run()  (nodes.py, lines 10-11)
LoaderNext ==
    \/ LoadNodesEnter
    \/ LoadUnit
    \/ LoadNodesReturn
    \/ DagRunStart
    \/ DagRunTaskEnter
    \/ DagRunTaskBody
    \/ DagRunTaskExit
    \/ DagRunEnd

LoaderSpecInit == TrackerInit /\ LoaderInit /\ DagIdle /\ MainIdle

SpecLoader == LoaderSpecInit /\ [][LoaderNext]_vars

\* The registries handed to DAG(...): rows for some of the tasks, in any
\* order, each with any dependencies among the tasks.
DepLists == {<< >>, <<"fetchA">>, <<"saveA">>, <<"fetchB">>,
             <<"fetchA", "saveA">>, <<"fetchA", "fetchB">>, <<"saveA", "fetchB">>,
             <<"fetchA", "saveA", "fetchB">>}

Registries ==
    {r \in UNION {[1..n -> Tasks \X DepLists] : n \in 0..Cardinality(Tasks)} :
        \A i, j \in 1..Len(r) : r[i][1] = r[j][1] => i = j}

DagInit ==
    /\ workflow \in Registries
    /\ dag_pc = "new"
    /\ dag_error = None
    /\ order = << >>
    /\ executed = << >>

DagNext ==
    \/ DagConstruct
    \/ DagRunStart
    \/ DagRunTaskEnter
    \/ DagRunTaskBody
    \/ DagRunTaskExit
    \/ DagRunEnd

DagSpecInit == TrackerInit /\ LoaderIdle /\ DagInit /\ MainIdle

SpecDag == DagSpecInit /\ [][DagNext]_vars

\* python main.py, run after run on the same data directory
MainNext ==
    \/ MainEnter
    \/ ItemTaskEnter
    \/ ItemTaskStep
    \/ ItemTaskReturn
    \/ PageTaskRun

MainSpecInit == TrackerInit /\ LoaderIdle /\ DagIdle /\ MainIdle

SpecMain == MainSpecInit /\ [][MainNext]_vars

-----------------------------------------------------------------------------
(* Properties of the tracker *)

Recorders == {"record_read", "record_write"}

\* The task of the most recent write record for asset a; None without one.
RECURSIVE LastWriteTask(_, _)
LastWriteTask(records, a) ==
    IF records = << >> THEN None
    ELSE LET r == Last(records)
         IN  IF r.operation = "write" /\ r.asset_path = a
             THEN r.task_id
             ELSE LastWriteTask(DropLastN(records, 1), a)

\* The task of the most recent write record for asset a that was made while
\* a task was current; None without one.
RECURSIVE LastTaskWrite(_, _)
LastTaskWrite(records, a) ==
    IF records = << >> THEN None
    ELSE LET r == Last(records)
         IN  IF r.operation = "write" /\ r.asset_path = a /\ r.task_id /= None
             THEN r.task_id
             ELSE LastTaskWrite(DropLastN(records, 1), a)

\* The rows of the chosen records, in the order of the log
\* (every record when all is TRUE, else those of task t)
RECURSIVE RowsOf(_, _, _)
RowsOf(records, all, t) ==
    IF records = << >> THEN << >>
    ELSE LET r == records[1]
             rest == RowsOf(Tail(records), all, t)
         IN  IF all \/ r.task_id = t
             THEN <<[asset |-> r.asset_path, task |-> r.task_id,
                     op |-> r.operation, stack |-> r.stack]>> \o rest
             ELSE rest

\* C1: when the slot holds a task T, record_write(a) followed immediately by
\* get_writer(a) returns T, whatever the index held for a before.
C1_WriteThenGetWriter ==
    [][ ( /\ last.op = "record_write"
          /\ last.task /= None
          /\ last'.op = "get_writer"
          /\ last'.arg = last.arg )
        => last'.ret = last.task ]_vars

\* get_writer(a) has just returned the task that wrote a in the latest record,
\* and an earlier record shows another task as a's previous writer.
C1_Witness ==
    /\ last.op = "get_writer"
    /\ last.ret /= None
    /\ io_records /= << >>
    /\ Last(io_records).operation = "write"
    /\ Last(io_records).asset_path = last.arg
    /\ Last(io_records).task_id = last.ret
    /\ \E i \in 1..(Len(io_records) - 1) :
          /\ io_records[i].operation = "write"
          /\ io_records[i].asset_path = last.arg
          /\ io_records[i].task_id \notin {None, last.ret}

\* C2: record_write(a) with no task active leaves the whole Writer Index as
\* it was and appends exactly one record (a, none, write) to the log.
C2_WriteWithoutTask ==
    [][ (last'.op = "record_write" /\ current_task_id = None)
        => /\ asset_writers' = asset_writers
           /\ \A x \in Assets :
                 GetWriter(asset_writers', x) = GetWriter(asset_writers, x)
           /\ Len(io_records') = Len(io_records) + 1
           /\ SubSeq(io_records', 1, Len(io_records)) = io_records
           /\ Last(io_records').asset_path = last'.arg
           /\ Last(io_records').task_id = None
           /\ Last(io_records').operation = "write" ]_vars

\* A write with no task has just been logged while the index holds a writer
\* of that very artifact.
C2_Witness ==
    /\ last.op = "record_write"
    /\ last.task = None
    /\ GetWriter(asset_writers, last.arg) /= None
    /\ Last(io_records).task_id = None
    /\ Last(io_records).asset_path = last.arg

\* C3 as stated: get_writer(a) is the task of the most recent write record
\* for a since the last clear_tracking.
C3_Original ==
    \A a \in Assets : GetWriter(asset_writers, a) = LastWriteTask(io_records, a)

\* C3, amended: get_writer(a) is the task of the most recent write record for
\* a made while a task was current (none without such a record since the last
\* clear_tracking), and once it is not none only clear_tracking makes it none.
C3_LastTaskWriter ==
    /\ [](\A a \in Assets : GetWriter(asset_writers, a) = LastTaskWrite(io_records, a))
    /\ [][ \A a \in Assets :
              (GetWriter(asset_writers, a) /= None /\ last'.op /= "clear_tracking")
              => GetWriter(asset_writers', a) /= None ]_vars

\* The latest write record of an artifact carries no task, an earlier one
\* carries the task the index names.
C3_Witness ==
    \E a \in Assets :
        /\ LastWriteTask(io_records, a) = None
        /\ GetWriter(asset_writers, a) /= None
        /\ \E i \in 1..Len(io_records) :
              /\ io_records[i].operation = "write"
              /\ io_records[i].asset_path = a
              /\ io_records[i].task_id = None

\* C4: the log grows by exactly the record of each record_read / record_write
\* call, in call order, and nothing but clear_tracking changes it otherwise;
\* get_io_records() returns all of it in that order and get_io_records(T) the
\* subsequence of the records whose task is T.
C4_RecordsInOrder ==
    /\ [][ /\ last'.op \in Recorders
              => io_records' =
                   Append(io_records,
                          [asset_path |-> last'.arg,
                           task_id |-> current_task_id,
                           operation |-> IF last'.op = "record_read"
                                         THEN "read" ELSE "write",
                           stack |-> Last(io_records').stack])
           /\ last'.op \notin Recorders \cup {"clear_tracking"}
              => io_records' = io_records ]_vars
    /\ [](last.op = "get_io_records"
          => last.ret = RowsOf(io_records, last.arg = None, last.arg))

\* get_io_records(T) has returned two of three logged records, dropping one
\* of another task or of no task that lies between or before them.
C4_Witness ==
    /\ last.op = "get_io_records"
    /\ last.arg /= None
    /\ Len(last.ret) = 2
    /\ Len(io_records) = 3
    /\ io_records[3].task_id = last.arg
    /\ last.ret[1] /= last.ret[2]

\* C5: right after clear_tracking() every query returns an empty result.
C5_ClearEmptiesAll ==
    last.op = "clear_tracking"
    => /\ \A a \in Assets : GetWriter(asset_writers, a) = None
       /\ \A t \in TaskIds :
             /\ GetAssetsByWriter(asset_writers, t) = << >>
             /\ GetReadsByTask(io_records, t) = << >>
             /\ GetWritesByTask(io_records, t) = << >>
             /\ GetIoRecords(io_records, t) = << >>
       /\ GetIoRecords(io_records, None) = << >>

\* clear_tracking() has just run in the middle of a task.
C5_Witness ==
    /\ last.op = "clear_tracking"
    /\ last.task /= None
    /\ io_records = << >>
    /\ asset_writers = << >>

-----------------------------------------------------------------------------
(* Properties of the loader *)

\* Unit A declares producer fetchA with transform saveA; unit B declares
\* producer fetchB with no transform, as the node modules do: {run: []}.
UnitA == File(FALSE, Module("dict", << <<"fetchA", "saveA">> >>))
UnitB == File(FALSE, Module("dict", << <<"fetchB", EmptyList>> >>))

LoadEnded == loader_pc \in {"returned", "raised"}

\* C6: loading units A and B succeeds and yields exactly the rows
\* fetchA -> [], saveA -> [fetchA], fetchB -> [].
C6_TwoUnitScenario ==
    (nodes_dir = [exists |-> TRUE, files |-> <<UnitA, UnitB>>] /\ LoadEnded)
    => /\ loader_pc = "returned"
       /\ Len(workflow) = 3
       /\ SeqToSet(workflow) = { <<"fetchA", << >> >>,
                                 <<"saveA", <<"fetchA">> >>,
                                 <<"fetchB", << >> >> }

\* The (producer, transform) pairs the loaded units of the directory declare.
DeclaredPairs(dir) ==
    {item \in Tasks \X Tasks :
        \E i \in 1..Len(dir.files) :
            /\ ~dir.files[i].private
            /\ dir.files[i].module.kind = "dict"
            /\ item \in SeqToSet(dir.files[i].module.nodes)}

\* C7: when load_nodes returns, the registry lists, for every declared
\* (producer, transform) pair, the producer among the transform's dependencies.
C7_EveryPairIsAnEdge ==
    (loader_pc = "returned" /\ nodes_dir.exists)
    => \A item \in DeclaredPairs(nodes_dir) :
          /\ DictHas(workflow, item[2])
          /\ item[1] \in SeqToSet(DictAt(workflow, item[2]))

\* Loading the file raises: its top-level code does, or the conversion of
\* its NODES does.
FileRaises(file) ==
    /\ ~file.private
    /\ \/ file.module.kind = "raises"
       \/ /\ file.module.kind = "dict"
          /\ \E i \in 1..Len(file.module.nodes) : file.module.nodes[i][2] = EmptyList

SomeFileRaises(dir) ==
    dir.exists /\ \E i \in 1..Len(dir.files) : FileRaises(dir.files[i])

FirstRaising(dir) ==
    CHOOSE i \in 1..Len(dir.files) :
        /\ FileRaises(dir.files[i])
        /\ \A j \in 1..(i - 1) : ~FileRaises(dir.files[j])

\* C8: when an eligible unit raises while it is loaded, load_nodes raises at
\* that unit and returns no DAG, whatever rows earlier units contributed; no
\* task is executed and the log and the Writer Index stay as they were.
C8_LoadFailureAborts ==
    /\ [](SomeFileRaises(nodes_dir)
          => /\ loader_pc /= "returned"
             /\ dag_pc = "none"
             /\ next_file <= FirstRaising(nodes_dir)
             /\ executed = << >>
             /\ io_records = << >>
             /\ asset_writers = << >>)
    /\ [][ ( /\ SomeFileRaises(nodes_dir)
             /\ loader_pc = "scanning"
             /\ next_file = FirstRaising(nodes_dir) )
           => loader_pc' = "raised" ]_vars

\* load_nodes has raised at a unit whose top-level code raises, after an
\* earlier unit had contributed rows.
C8_Witness ==
    /\ loader_pc = "raised"
    /\ dag_pc = "none"
    /\ next_file = 2
    /\ nodes_dir.files[2].module.kind = "raises"
    /\ Len(all_nodes) = 2
    /\ executed = << >>

-----------------------------------------------------------------------------
(* Properties of the graph *)

NoDangling(reg) ==
    \A i \in 1..Len(reg) : SeqToSet(reg[i][2]) \subseteq DictKeys(reg)

\* Some numbering of the tasks puts every dependency before its dependant.
Acyclic(reg) ==
    \E rank \in [DictKeys(reg) -> 1..Len(reg)] :
        \A i \in 1..Len(reg) :
            \A d \in SeqToSet(reg[i][2]) \cap DictKeys(reg) : rank[d] < rank[reg[i][1]]

PositionIn(q, t) == CHOOSE i \in 1..Len(q) : q[i] = t

\* C9: for an acyclic registry whose dependencies are all registered, the
\* DAG is accepted and the execution order holds every registered task
\* exactly once, each after all of its dependencies.
C9_OrderIsTopological ==
    (Acyclic(workflow) /\ NoDangling(workflow) /\ dag_pc /= "new" /\ dag_pc /= "none")
    => /\ dag_pc /= "error"
       /\ dag_pc \in {"running", "in_task", "returning", "raising", "done", "failed"}
          => /\ Len(order) = Len(workflow)
             /\ SeqToSet(order) = DictKeys(workflow)
             /\ \A i \in 1..Len(workflow) :
                   \A d \in SeqToSet(workflow[i][2]) :
                       PositionIn(order, d) < PositionIn(order, workflow[i][1])

\* A run has finished whose order had to depart from the declaration order:
\* the task declared first depends on the two declared after it.
C9_Witness ==
    /\ dag_pc = "done"
    /\ Len(workflow) = 3
    /\ Len(workflow[1][2]) = 2
    /\ order[3] = workflow[1][1]
    /\ executed = order

-----------------------------------------------------------------------------
(* Properties of the run *)

IsPrefix(p, q) == Len(p) <= Len(q) /\ \A i \in 1..Len(p) : p[i] = q[i]

\* The saved artifacts and the persisted markers of the tasks other than t
\* are the same before and after the step.
OthersUntouched(t) ==
    \A u \in (ItemTasks \cup PageTasks) \ {t} :
        raw_store'[u] = raw_store[u] /\ state_store'[u] = state_store[u]

\* C10: the tasks are called one at a time in the order of main(); when the
\* k-th raises, the failure leaves main(), no later task is started in that
\* run, and what tasks 1..k-1 saved and marked stays as it is.
C10_StopAtFirstFailure ==
    /\ [](/\ IsPrefix(started, RunOrder)
          /\ main_pc \in (ItemTasks \cup PageTasks)
             => started = SubSeq(RunOrder, 1, Len(started))
                /\ (task_pc = "loop" => Last(started) = main_pc)
          /\ failed_task /= None
             => main_pc = "raised" /\ Last(started) = failed_task)
    /\ [][ /\ (failed_task = None /\ failed_task' /= None)
              => OthersUntouched(failed_task')
           /\ (failed_task /= None /\ runs' = runs)
              => UNCHANGED <<started, raw_store, state_store, main_pc>> ]_vars

\* The third task has raised; the first two had saved and marked everything.
C10_Witness ==
    /\ main_pc = "raised"
    /\ failed_task = "exchange_rates"
    /\ started = <<"datagovsg", "msb_tables", "exchange_rates">>
    /\ state_store["datagovsg"] = 1..NDatasets
    /\ state_store["msb_tables"] = 1..NTables
    /\ \A i \in 1..NTables : raw_store["msb_tables"][i] = "saved"
    /\ ~state_store["interest_rates"]

-----------------------------------------------------------------------------
(* Properties of the executor's context switching *)

InTaskBody == dag_pc \in {"in_task", "returning", "raising"}

-----------------------------------------------------------------------------
(* Properties of the call-stack snapshot *)

\* The frames of a call site with the tracker's own frames removed, as the
\* snapshot shows them, cut to the most recent KeptFrames, oldest first.
SiteSnapshot(site) ==
    LET kept == SelectSeq(site, RelevantFrame)
    IN  LastN([i \in 1..Len(kept) |-> FormatFrame(kept[i])], KeptFrames)

\* C12: the snapshot of a record shows the frames active at the call site of
\* record_read / record_write without the tracker's own, the most recent 5 of
\* them, oldest first: its last entry is the direct caller, and it has at
\* most 5 entries.
C12_SnapshotEndsAtCaller ==
    last.op \in Recorders
    => LET snapshot == Last(io_records).stack
       IN  /\ snapshot = SiteSnapshot(last.site)
           /\ Len(snapshot) <= KeptFrames
           /\ snapshot /= << >>
           /\ Last(snapshot) = FormatFrame(Last(last.site))

-----------------------------------------------------------------------------
(* Properties of the attribution of records *)

\* The log of the scenario: fetchA's body has called record_write on
\* raw/a.json, then saveA's body has called record_read on it.
ScenarioLog ==
    /\ Len(io_records) = 2
    /\ io_records[1].operation = "write"
    /\ io_records[1].asset_path = "raw/a.json"
    /\ io_records[1].task_id = "fetchA"
    /\ io_records[2].operation = "read"
    /\ io_records[2].asset_path = "raw/a.json"
    /\ io_records[2].task_id = "saveA"

\* C13: whatever the interleaving of set_current_task and record calls, a
\* record carries the value the slot had when it was made and keeps it; so
\* after fetchA wrote raw/a.json and saveA read it, get_writer("raw/a.json")
\* is fetchA and get_reads_by_task(saveA) is exactly ["raw/a.json"].
C13_RecordsCarrySlot ==
    /\ [][ Len(io_records') = Len(io_records) + 1
           => /\ Last(io_records').task_id = current_task_id
              /\ current_task_id' = current_task_id
              /\ \A i \in 1..Len(io_records) :
                    io_records'[i].task_id = io_records[i].task_id ]_vars
    /\ [](ScenarioLog
          => /\ GetWriter(asset_writers, "raw/a.json") = "fetchA"
             /\ GetReadsByTask(io_records, "saveA") = <<"raw/a.json">>
             /\ (last.op = "get_writer" /\ last.arg = "raw/a.json")
                => last.ret = "fetchA"
             /\ (last.op = "get_reads_by_task" /\ last.arg = "saveA")
                => last.ret = <<"raw/a.json">>)

\* After the scenario, with the context cleared again, get_reads_by_task(saveA)
\* has returned the one artifact and the index names fetchA as its writer.
C13_Witness ==
    /\ ScenarioLog
    /\ current_task_id = None
    /\ last.op = "get_reads_by_task"
    /\ last.arg = "saveA"
    /\ last.ret = <<"raw/a.json">>
    /\ GetWriter(asset_writers, "raw/a.json") = "fetchA"

-----------------------------------------------------------------------------
(* Properties of the registry of independent units *)

\* The one (producer, transform) pair unit i of the directory declares.
PairOf(dir, i) == dir.files[i].module.nodes[1]

\* Every file of the directory is a loaded unit declaring exactly one
\* producer -> transform pair, and the tasks of the units are pairwise distinct.
Independent(dir) ==
    /\ dir.exists
    /\ \A i \in 1..Len(dir.files) :
          /\ ~dir.files[i].private
          /\ dir.files[i].module.kind = "dict"
          /\ Len(dir.files[i].module.nodes) = 1
          /\ PairOf(dir, i)[2] /= EmptyList
          /\ PairOf(dir, i)[1] /= PairOf(dir, i)[2]
    /\ \A i, j \in 1..Len(dir.files) :
          i /= j => SeqToSet(PairOf(dir, i)) \cap SeqToSet(PairOf(dir, j)) = {}

\* The number of dependency edges of a registry.
RECURSIVE EdgeCount(_)
EdgeCount(reg) ==
    IF reg = << >> THEN 0 ELSE Len(reg[1][2]) + EdgeCount(Tail(reg))

\* C14: loading N independent units, each declaring one producer ->
\* transform pair, succeeds with a registry of exactly 2N rows and N edges:
\* every producer with no dependency, every transform with its producer only.
C14_IndependentUnits ==
    Independent(nodes_dir)
    => /\ loader_pc /= "raised"
       /\ loader_pc = "scanning" => Len(all_nodes) = 2 * (next_file - 1)
       /\ loader_pc = "returned"
          => /\ Len(workflow) = 2 * Len(nodes_dir.files)
             /\ EdgeCount(workflow) = Len(nodes_dir.files)
             /\ \A i \in 1..Len(nodes_dir.files) :
                   /\ DictHas(workflow, PairOf(nodes_dir, i)[1])
                   /\ DictAt(workflow, PairOf(nodes_dir, i)[1]) = << >>
                   /\ DictHas(workflow, PairOf(nodes_dir, i)[2])
                   /\ DictAt(workflow, PairOf(nodes_dir, i)[2])
                      = <<PairOf(nodes_dir, i)[1]>>

\* Two independent units have been loaded: four rows, two edges.
C14_Witness ==
    /\ Independent(nodes_dir)
    /\ Len(nodes_dir.files) = 2
    /\ loader_pc = "returned"
    /\ Len(workflow) = 4
    /\ EdgeCount(workflow) = 2

-----------------------------------------------------------------------------
(* Properties of the loader on a missing directory *)

\* C15: when the directory does not exist, load_nodes returns at once with an
\* empty registry and does not raise; no unit is loaded and, the registry
\* being empty, a run of it executes no task and records nothing.
C15_MissingDirectory ==
    /\ [](~nodes_dir.exists
          => /\ loader_pc \in {"idle", "returned"}
             /\ all_nodes = << >>
             /\ next_file = 1
             /\ workflow = << >>
             /\ dag_error = None
             /\ loader_pc = "returned" => dag_pc \in {"built", "running", "done"}
             /\ order = << >>
             /\ executed = << >>
             /\ io_records = << >>
             /\ current_task_id = None)
    /\ [][ (~nodes_dir.exists /\ loader_pc = "idle")
           => (loader_pc' = "returned" /\ dag_pc' = "built") ]_vars

\* The loader has returned for a missing directory and the run of the empty
\* registry is over.
C15_Witness ==
    /\ ~nodes_dir.exists
    /\ loader_pc = "returned"
    /\ dag_pc = "done"
    /\ workflow = << >>
    /\ executed = << >>

-----------------------------------------------------------------------------
(* Properties of the loader on units without a mapping *)

\* The file is loaded, its module executes without raising, and it declares
\* no mapping: no NODES, a NODES that is not a dict, or an empty one.
NoMapping(file) ==
    /\ ~file.private
    /\ \/ file.module.kind \in {"no_nodes", "not_dict"}
       \/ file.module.kind = "dict" /\ file.module.nodes = << >>

\* C16: processing a unit that declares no mapping leaves the registry as it
\* was and does not end the pass: the loop goes on to the next unit; a
\* directory of such units alone loads to the empty registry.
C16_NoMappingNoRows ==
    /\ [][ ( /\ loader_pc = "scanning"
             /\ next_file <= Len(nodes_dir.files)
             /\ NoMapping(nodes_dir.files[next_file]) )
           => /\ all_nodes' = all_nodes
              /\ loader_pc' = "scanning"
              /\ next_file' = next_file + 1 ]_vars
    /\ []( ( /\ nodes_dir.exists
             /\ \A i \in 1..Len(nodes_dir.files) : NoMapping(nodes_dir.files[i])
             /\ LoadEnded )
           => (loader_pc = "returned" /\ workflow = << >>) )

\* A unit without NODES was processed first, and the unit after it has
\* contributed its two rows.
C16_Witness ==
    /\ nodes_dir.exists
    /\ Len(nodes_dir.files) = 2
    /\ nodes_dir.files[1].module.kind = "no_nodes"
    /\ ~nodes_dir.files[1].private
    /\ next_file = 3
    /\ Len(all_nodes) = 2
    /\ loader_pc = "returned"

-----------------------------------------------------------------------------
(* Properties of the queries *)

QueryOps == {"get_writer", "get_assets_by_writer", "get_reads_by_task",
             "get_writes_by_task", "get_io_records"}

\* C17: a call of get_writer, get_assets_by_writer, get_reads_by_task,
\* get_writes_by_task or get_io_records, with any argument and in any state,
\* leaves the Writer Index, the log and the current-task slot as they were.
C17_QueriesArePure ==
    [][ last'.op \in QueryOps
        => /\ asset_writers' = asset_writers
           /\ io_records' = io_records
           /\ current_task_id' = current_task_id ]_vars

\* get_writer has just found nothing for an artifact, in the middle of a task
\* with a record in the log and another artifact in the index.
C17_Witness ==
    /\ last.op = "get_writer"
    /\ last.ret = None
    /\ current_task_id /= None
    /\ io_records /= << >>
    /\ asset_writers /= << >>
    /\ ~DictHas(asset_writers, last.arg)

-----------------------------------------------------------------------------
(* Properties of the completion markers *)

\* The loop of a multi-item task is about to fetch the item pending[idx].
AboutToFetch == main_pc \in ItemTasks /\ task_pc = "loop" /\ idx <= Len(pending)

\* Every marker is set: all items of the multi-item tasks, both pages.
AllMarked ==
    /\ \A t \in ItemTasks : state_store[t] = ItemsOf(t)
    /\ \A t \in PageTasks : state_store[t]

\* C18: a task never fetches or saves again what its persisted marker lists:
\* the item the loop is about to fetch is not marked, a marked item's
\* artifact and a fetched page are left as they are, and a run that returns
\* normally leaves every marker set, after which a further run fetches
\* nothing and changes neither artifacts nor markers.
C18_MarkedWorkIsSkipped ==
    /\ [](AboutToFetch => pending[idx] \notin state_store[main_pc])
    /\ [](main_pc = "done" => AllMarked)
    /\ [](AllMarked => ~AboutToFetch)
    /\ [][ /\ \A t \in ItemTasks : \A i \in state_store[t] :
                 raw_store'[t][i] = raw_store[t][i] /\ i \in state_store'[t]
           /\ \A t \in PageTasks :
                 state_store[t] => (raw_store'[t] = raw_store[t] /\ state_store'[t])
           /\ AllMarked => (/\ raw_store' = raw_store
                            /\ state_store' = state_store
                            /\ failed_task' = None) ]_vars

\* A second run of main(), after a first that marked everything, has passed
\* the first multi-item task without entering its loop.
C18_Witness ==
    /\ runs = 2
    /\ AllMarked
    /\ main_pc = "msb_tables"
    /\ task_pc = "enter"
    /\ started = <<"datagovsg">>
    /\ pending = << >>

-----------------------------------------------------------------------------
(* Properties of the validation of the graph *)

\* Some chain of dependencies leads from task t back to t.
OnCycle(reg, t) ==
    \E n \in 1..Len(reg) :
        \E p \in [1..n -> DictKeys(reg)] :
            /\ p[1] = t
            /\ \A i \in 1..(n - 1) : p[i + 1] \in SeqToSet(DictAt(reg, p[i]))
            /\ t \in SeqToSet(DictAt(reg, p[n]))

HasCycle(reg) == \E t \in DictKeys(reg) : OnCycle(reg, t)

\* C19: for a registry with a dependency cycle (a task depending on itself
\* included) the construction of the graph fails, the structural error names
\* a task on a cycle, and no task body has run.
C19_CycleIsRejected ==
    (HasCycle(workflow) /\ dag_pc \notin {"none", "new"})
    => /\ dag_pc = "error"
       /\ dag_error /= None
       /\ DictHas(workflow, dag_error)
       /\ OnCycle(workflow, dag_error)
       /\ order = << >>
       /\ executed = << >>
       /\ io_records = << >>
       /\ current_task_id = None

\* A registry of three tasks was rejected: the task declared first lies on
\* no cycle, and the error names one of the two others, which depend on each
\* other.
C19_Witness ==
    /\ dag_pc = "error"
    /\ Len(workflow) = 3
    /\ ~OnCycle(workflow, workflow[1][1])
    /\ workflow[2][2] = <<workflow[3][1]>>
    /\ workflow[3][2] = <<workflow[2][1]>>
    /\ dag_error = workflow[2][1]
    /\ executed = << >>

-----------------------------------------------------------------------------
(* Properties of the progress of the multi-item tasks *)

\* The task whose loop main() is in, or was in when it raised; None otherwise.
LoopTask ==
    IF main_pc \in ItemTasks /\ task_pc = "loop" THEN main_pc
    ELSE IF main_pc = "raised" /\ failed_task \in ItemTasks THEN failed_task
    ELSE None

\* C20: in datagovsg.run and msb_tables.run, at every point, also after a
\* fetch or a save has raised, every item of the persisted completed set has
\* its artifact saved and the set only grows; the items of pending before the
\* one the loop is at (or failed at) are marked, and the rest of pending is
\* exactly what is not marked, which is what the next run() takes as pending.
C20_MarkedMeansSaved ==
    /\ [](\A t \in ItemTasks : \A i \in state_store[t] : raw_store[t][i] = "saved")
    /\ [][ \A t \in ItemTasks : state_store[t] \subseteq state_store'[t] ]_vars
    /\ [](LoopTask /= None
          => /\ \A j \in 1..(idx - 1) : pending[j] \in state_store[LoopTask]
             /\ {pending[j] : j \in idx..Len(pending)}
                = ItemsOf(LoopTask) \ state_store[LoopTask])
    /\ [][ (main_pc' \in ItemTasks /\ task_pc' = "loop" /\ task_pc = "enter")
           => /\ SeqToSet(pending') = ItemsOf(main_pc') \ state_store[main_pc']
              /\ Len(pending') = Cardinality(SeqToSet(pending')) ]_vars

\* datagovsg.run() has raised at its second item with the .ndjson.gz partly
\* written; the first item is saved and marked, the second is not marked.
C20_Witness ==
    /\ main_pc = "raised"
    /\ failed_task = "datagovsg"
    /\ idx = 2
    /\ state_store["datagovsg"] = {pending[1]}
    /\ raw_store["datagovsg"][pending[1]] = "saved"
    /\ raw_store["datagovsg"][pending[2]] = "partial"

-----------------------------------------------------------------------------
(* Properties of the order of discovery *)

\* The unit is loaded and its NODES names the task, as producer or transform.
Declares(file, task) ==
    /\ ~file.private
    /\ file.module.kind = "dict"
    /\ \E i \in 1..Len(file.module.nodes) :
          file.module.nodes[i][1] = task \/ file.module.nodes[i][2] = task

\* The rows the unit writes for the task: [] where it is a producer, its
\* producer alone where it is a transform.
RowsWritten(file, task) ==
    {<< >> : i \in {k \in 1..Len(file.module.nodes) : file.module.nodes[k][1] = task}}
    \cup {<<file.module.nodes[i][1]>> :
             i \in {k \in 1..Len(file.module.nodes) : file.module.nodes[k][2] = task}}

\* The unit with the greatest file name among those that declare the task.
LastDeclaring(dir, task) ==
    CHOOSE i \in 1..Len(dir.files) :
        /\ Declares(dir.files[i], task)
        /\ \A j \in (i + 1)..Len(dir.files) : ~Declares(dir.files[j], task)

\* The registry of the units from name i on, taken in ascending name order,
\* added to `nodes`.
RECURSIVE RegistryInNameOrder(_, _, _)
RegistryInNameOrder(dir, i, nodes) ==
    IF i > Len(dir.files) THEN nodes
    ELSE IF dir.files[i].private \/ dir.files[i].module.kind /= "dict"
    THEN RegistryInNameOrder(dir, i + 1, nodes)
    ELSE RegistryInNameOrder(dir, i + 1,
             ConvertItems(nodes, dir.files[i].module.nodes, 1).nodes)

\* C21: whatever order the directory lists its files in, the units are
\* processed in ascending file-name order, so the registry load_nodes returns
\* is the one the directory's contents determine, rows and key order; the row
\* of a task that several units declare is one the unit with the greatest
\* file name wrote.
C21_RegistryIsDetermined ==
    /\ (nodes_dir.exists /\ loader_pc /= "idle")
       => node_files = [i \in 1..Len(nodes_dir.files) |-> i]
    /\ (nodes_dir.exists /\ loader_pc = "returned")
       => /\ workflow = RegistryInNameOrder(nodes_dir, 1, << >>)
          /\ \A i \in 1..Len(workflow) :
                DictAt(workflow, workflow[i][1])
                \in RowsWritten(nodes_dir.files[LastDeclaring(nodes_dir, workflow[i][1])],
                                workflow[i][1])

\* Two units declare saveA, the first as the transform of fetchA, the second
\* as a producer: the row that remains is the second unit's, saveA -> [].
C21_Witness ==
    /\ loader_pc = "returned"
    /\ nodes_dir.exists
    /\ Len(nodes_dir.files) = 2
    /\ nodes_dir.files[1] = File(FALSE, Module("dict", << <<"fetchA", "saveA">> >>))
    /\ nodes_dir.files[2] = File(FALSE, Module("dict", << <<"saveA", "fetchB">> >>))
    /\ workflow = << <<"fetchA", << >> >>, <<"saveA", << >> >>,
                     <<"fetchB", <<"saveA">> >> >>

-----------------------------------------------------------------------------
(* Properties of the current-task slot *)

\* C22: only set_current_task changes the slot, and it sets it to its
\* argument; get_current_task returns the slot; so clear_tracking,
\* record_read and record_write leave it alone, and a record_write that
\* follows a clear_tracking in the middle of task T is attributed to T, in
\* the log and in the index.
C22_OnlySetChangesSlot ==
    /\ [](last.op = "set_current_task" => current_task_id = last.arg)
    /\ [](last.op = "get_current_task" => last.ret = current_task_id)
    /\ [][ last'.op /= "set_current_task"
           => current_task_id' = current_task_id ]_vars
    /\ [][ ( /\ last.op = "clear_tracking"
             /\ last.task /= None
             /\ last'.op = "record_write" )
           => /\ io_records' = <<Last(io_records')>>
              /\ Last(io_records').task_id = last.task
              /\ GetWriter(asset_writers', last'.arg) = last.task ]_vars

\* A write is the only record of the log and carries the task that is
\* current, as after a clear_tracking in the middle of that task.
C22_Witness ==
    /\ last.op = "record_write"
    /\ current_task_id /= None
    /\ Len(io_records) = 1
    /\ io_records[1].task_id = current_task_id
    /\ asset_writers = << <<last.arg, current_task_id>> >>

=============================================================================
